---------------------------- MODULE Spec2Model ----------------------------
(***************************************************************************)
(* Model of src/sentiment_analyzer.py: the per-comment pipeline            *)
(* (detect_language, translate_to_english, analyze_sentiment,              *)
(* process_comment), the report builder (post_sentiment_comment) and the   *)
(* batch loop of main.                                                     *)
(*                                                                         *)
(* Representation.                                                         *)
(*  - Text is a TLA+ string; Len, SubSeq and \o act on it as Python's      *)
(*    len, slicing and + do.                                               *)
(*  - A raw float score (TextBlob's polarity, subjectivity) is an integer  *)
(*    number of thousandths: 104 is 0.104.                                 *)
(*  - A float rounded by round(x, 2) is a sign and a magnitude in          *)
(*    hundredths, [neg |-> FALSE, mag |-> 80] is 0.8, since Python keeps   *)
(*    the sign of a negative zero and prints it.                           *)
(*  - Optional[str] is a string or NONE; Optional[dict] is a sequence of   *)
(*    no or one record.                                                    *)
(*  - The external capabilities (langdetect.detect, the translate client,  *)
(*    TextBlob, the HTTP calls) answer nondeterministically; an answer is  *)
(*    a record [kind, value]: kind "ok" with the value returned, kind      *)
(*    "raise" with the name of the exception class raised.                 *)
(***************************************************************************)
EXTENDS Integers, Sequences, FiniteSets, TLC

VARIABLES
    pc,                \* position in main / process_comment
    comments,          \* main: bodies of the comments get_pr_comments returned
    i,                 \* main: number of comments the for loop has finished
    lang,              \* process_comment: lang
    translated_text,   \* process_comment: translated_text
    blob,              \* analyze_sentiment: blob.sentiment
    analysis_results,  \* main: analysis_results
    comment_body,      \* post_sentiment_comment: comment_body, as its lines
    posted,            \* bodies handed to requests.post
    calls,             \* history: capability calls of the comment in progress
    log                \* history: per finished comment, its text, calls, result

vars == <<pc, comments, i, lang, translated_text, blob, analysis_results,
          comment_body, posted, calls, log>>

----------------------------------------------------------------------------
(* Bounds of the model *)

MaxComments == 2

MaxRecords == 2

----------------------------------------------------------------------------
(* Program constants *)

SUPPORTED_LANGUAGES == <<"de", "es">>

PosThreshold == 100

NegThreshold == -100

TruncLen == 50

NONE == "None"

----------------------------------------------------------------------------
(* Inputs *)

Range(s) == {s[k] : k \in 1..Len(s)}

RECURSIVE SeqsUpTo(_, _)
SeqsUpTo(S, n) ==
    IF n = 0 THEN {<<>>}
    ELSE LET shorter == SeqsUpTo(S, n - 1)
         IN  shorter \cup {Append(s, x) : s \in {t \in shorter : Len(t) = n - 1}, x \in S}

GermanShort == "Das ist großartig!"

SpanishLong == "Este cambio rompe la compatibilidad con la versión anterior."

\* comment bodies of the batch runs: 18 and 60 characters
Texts == {GermanShort, SpanishLong}

\* texts of 0, 11, 49, 50, 51 and 60 characters for the report builder
BuildTexts ==
    {"", "Hello there",
     "Diese Funktion ist leider viel zu lang und unklar",
     "Diese Schleife ist unnötig kompliziert geschrieben",
     "Bitte die Fehlerbehandlung in dieser Methode prüfen",
     SpanishLong}

Ok(v) == [kind |-> "ok", value |-> v]

Raise(exc) == [kind |-> "raise", value |-> exc]

\* what langdetect.detect(text) can do: return a code or raise
DetectOutcomes ==
    {Ok("de"), Ok("es"), Ok("en"), Raise("LangDetectException")}

EnglishText == "That's great!"

\* what translate_client.translate_text(...) can do: return a response with
\* a translatedText, return one without it, or raise
TranslateOutcomes ==
    {Ok(EnglishText), [kind |-> "nofield", value |-> ""], Raise("Exception")}

\* TextBlob(text).sentiment of the batch runs
Blobs ==
    {[polarity |-> p, subjectivity |-> 500] : p \in {-110, 100, 104, 800}}

\* TextBlob(text).sentiment over its whole range, polarity in [-1.0, 1.0]
AllBlobs ==
    {[polarity |-> p, subjectivity |-> s] : p \in (-1000)..1000, s \in {0, 1000}}

----------------------------------------------------------------------------
(* Python's float operations *)

Abs(x) == IF x < 0 THEN -x ELSE x

\* The thousandths k (k % 10 = 5) for which the double nearest to k/1000 lies
\* above the midpoint of its two neighbouring hundredths, so that round(.., 2)
\* goes up; for the other midpoints the double lies below and it goes down.
TiesUp ==
    {5, 25, 35, 55, 65, 85, 95, 115, 135, 165, 195, 225, 255, 265, 275, 315,
     325, 335, 375, 385, 395, 405, 445, 455, 465, 505, 515, 525, 535, 545,
     555, 635, 645, 655, 665, 675, 685, 755, 765, 775, 785, 795, 805, 875,
     885, 895, 905, 915, 925, 935}

\* round(x, 2) of the float x = p/1000
Round2(p) ==
    LET a == Abs(p)
        up == (a % 10 > 5) \/ (a % 10 = 5 /\ a \in TiesUp)
    IN  [neg |-> p < 0, mag |-> (a \div 10) + (IF up THEN 1 ELSE 0)]

Digit(d) == <<"0", "1", "2", "3", "4", "5", "6", "7", "8", "9">>[d + 1]

RECURSIVE NatStr(_)
NatStr(n) == IF n < 10 THEN Digit(n) ELSE NatStr(n \div 10) \o Digit(n % 10)

\* mutant of FloatStr: '%.2f' formatting, always two decimals
FloatStrTwoDecimals(f) ==
    (IF f.neg THEN "-" ELSE "") \o NatStr(f.mag \div 100) \o "." \o
    Digit((f.mag % 100) \div 10) \o Digit(f.mag % 10)

\* str(f) of a float f with at most two decimals: the shortest repr, which
\* keeps one decimal at least and no trailing zero beyond it
FloatStr(f) ==
    LET frac == f.mag % 100
    IN  (IF f.neg THEN "-" ELSE "") \o NatStr(f.mag \div 100) \o "." \o
        (IF frac % 10 = 0 THEN Digit(frac \div 10)
         ELSE Digit(frac \div 10) \o Digit(frac % 10))

\* str.upper() on the three sentiment classes
Upper(s) ==
    CASE s = "positive" -> "POSITIVE"
      [] s = "negative" -> "NEGATIVE"
      [] s = "neutral" -> "NEUTRAL"
      [] OTHER -> s

----------------------------------------------------------------------------
(* The functions of SentimentAnalyzer *)

\* mutant of DetectLanguage: the allow-list test is dropped
DetectLanguageAnyCode(out) ==
    IF out.kind = "ok" THEN Ok(out.value)
    ELSE IF out.value = "LangDetectException" THEN Ok(NONE) ELSE out

\* mutant of DetectLanguage: the except clause names another exception class
DetectLanguageUncaught(out) ==
    IF out.kind = "ok"
    THEN Ok(IF out.value \in Range(SUPPORTED_LANGUAGES) THEN out.value ELSE NONE)
    ELSE IF out.value = "ValueError" THEN Ok(NONE) ELSE out

\* detect_language: the try block around detect(text); `out` is what
\* detect(text) did.  Only LangDetectException is caught.
DetectLanguage(out) ==
    IF out.kind = "ok"
    THEN Ok(IF out.value \in Range(SUPPORTED_LANGUAGES) THEN out.value ELSE NONE)
    ELSE IF out.value = "LangDetectException" THEN Ok(NONE) ELSE out

\* mutant of IsSkipped: the early return is missing
IsSkippedNever(l) == FALSE

\* process_comment: `if not lang: return None`
IsSkipped(l) == l = NONE \/ l = ""

\* mutant of TranslateToEnglish: only the missing field is caught, a raise of
\* the client goes on to the caller
TranslateToEnglishKeyErrorOnly(text, out) ==
    IF out.kind = "ok" THEN Ok(out.value)
    ELSE IF out.kind = "nofield" THEN Ok(text) ELSE out

\* translate_to_english: the try block around translate_text(...); `out` is
\* what the client did.  result['translatedText'] raises KeyError on a response
\* without the field, and `except Exception` catches it like any raise.
TranslateToEnglish(text, out) ==
    IF out.kind = "ok" THEN Ok(out.value) ELSE Ok(text)

\* process_comment: the text handed to analyze_sentiment
ScoredText(comment_text, translated) == translated

\* mutant of AnalyzeSentiment: the polarity is rounded before it is classified
AnalyzeSentimentRoundFirst(b) ==
    LET r == Round2(b.polarity)
        hundredths == IF r.neg THEN -r.mag ELSE r.mag
    IN  [sentiment |->
            IF hundredths * 10 > PosThreshold THEN "positive"
            ELSE IF hundredths * 10 < NegThreshold THEN "negative"
            ELSE "neutral",
         polarity |-> r,
         subjectivity |-> Round2(b.subjectivity)]

\* analyze_sentiment: the class from the raw polarity, then the rounding
AnalyzeSentiment(b) ==
    [sentiment |->
        IF b.polarity > PosThreshold THEN "positive"
        ELSE IF b.polarity < NegThreshold THEN "negative"
        ELSE "neutral",
     polarity |-> Round2(b.polarity),
     subjectivity |-> Round2(b.subjectivity)]

\* mutant of ProcessCommentResult: original_text takes the translation
ProcessCommentResultOverwritten(comment_text, l, translated, b) ==
    [original_text |-> translated,
     detected_language |-> l,
     translated_text |-> translated,
     sentiment_analysis |-> AnalyzeSentiment(b)]

\* process_comment: the dict it returns
ProcessCommentResult(comment_text, l, translated, b) ==
    [original_text |-> comment_text,
     detected_language |-> l,
     translated_text |-> translated,
     sentiment_analysis |-> AnalyzeSentiment(b)]

\* main: `if result: analysis_results.append(result)`; result is a sequence
\* of no record (None) or one
AppendResult(results, result) == results \o result

\* mutant of Original: >= for >
OriginalAtLeast(text) ==
    IF Len(text) >= TruncLen THEN SubSeq(text, 1, TruncLen) \o "..." ELSE text

\* post_sentiment_comment: the Original column
Original(text) ==
    IF Len(text) > TruncLen THEN SubSeq(text, 1, TruncLen) \o "..." ELSE text

\* post_sentiment_comment: the Language column
LangName(code) == IF code = "de" THEN "German" ELSE "Spanish"

\* post_sentiment_comment: one line of the table
Row(result) ==
    "| " \o Original(result.original_text) \o " | " \o
    LangName(result.detected_language) \o " | " \o
    Upper(result.sentiment_analysis.sentiment) \o " | " \o
    FloatStr(result.sentiment_analysis.polarity) \o " |\n"

Header ==
    <<"## Sentiment Analysis Report\n\n",
      "| Original | Language | Sentiment | Polarity |\n",
      "|----------|----------|-----------|----------|\n">>

\* mutant of CommentBody: the rows are put in front, newest first
CommentBodyNewestFirst(results) ==
    Header \o [k \in 1..Len(results) |-> Row(results[Len(results) + 1 - k])]

\* post_sentiment_comment: comment_body, as the sequence of the lines that
\* += appends: the three header lines, then one line per result in list order
CommentBody(results) == Header \o [k \in 1..Len(results) |-> Row(results[k])]

----------------------------------------------------------------------------
(* State *)

NoBlob == [polarity |-> 0, subjectivity |-> 0]

Call(op, text, source, out) ==
    [op |-> op, text |-> text, source |-> source, out |-> out]

Locals ==
    /\ lang = NONE
    /\ translated_text = NONE
    /\ blob = NoBlob
    /\ calls = <<>>

Init ==
    /\ pc = "start"
    /\ comments = <<>>
    /\ i = 0
    /\ Locals
    /\ analysis_results = <<>>
    /\ comment_body = <<>>
    /\ posted = <<>>
    /\ log = <<>>

\* process_comment returns `result` for comment_text: its locals go, main's
\* loop body appends the result if there is one and moves on
Return(comment_text, cs, result) ==
    /\ analysis_results' = AppendResult(analysis_results, result)
    /\ log' = Append(log, [text |-> comment_text, calls |-> cs, result |-> result])
    /\ i' = i + 1
    /\ lang' = NONE
    /\ translated_text' = NONE
    /\ blob' = NoBlob
    /\ calls' = <<>>
    /\ pc' = "loop"
    /\ UNCHANGED <<comments, comment_body, posted>>

\* an exception nobody catches leaves main
Crash ==
    /\ pc' = "crashed"
    /\ UNCHANGED <<comments, i, lang, translated_text, blob, analysis_results,
                   comment_body, posted, log>>

----------------------------------------------------------------------------
(* main *)

\* main, lines 129-149: the environment and the event give a PR number or
\* main returns
Start ==
    /\ pc = "start"
    /\ \E ok \in BOOLEAN : pc' = IF ok THEN "fetch" ELSE "done"
    /\ UNCHANGED <<comments, i, lang, translated_text, blob, analysis_results,
                   comment_body, posted, calls, log>>

\* get_pr_comments: the JSON list on status 200, [] otherwise
GetPrComments ==
    /\ pc = "fetch"
    /\ \E status \in {200, 404}, bodies \in SeqsUpTo(Texts, MaxComments) :
          comments' = IF status = 200 THEN bodies ELSE <<>>
    /\ pc' = "loop"
    /\ UNCHANGED <<i, lang, translated_text, blob, analysis_results,
                   comment_body, posted, calls, log>>

\* main: `for comment in comments`, entering process_comment(comment['body'])
LoopNext ==
    /\ pc = "loop"
    /\ i < Len(comments)
    /\ pc' = "detect"
    /\ UNCHANGED <<comments, i, lang, translated_text, blob, analysis_results,
                   comment_body, posted, calls, log>>

\* main: the loop is over
LoopExit ==
    /\ pc = "loop"
    /\ i >= Len(comments)
    /\ pc' = "summary"
    /\ UNCHANGED <<comments, i, lang, translated_text, blob, analysis_results,
                   comment_body, posted, calls, log>>

\* process_comment, lines 66-68
Detect ==
    /\ pc = "detect"
    /\ \E out \in DetectOutcomes :
          LET text == comments[i + 1]
              r == DetectLanguage(out)
              cs == Append(calls, Call("detect", text, NONE, out))
          IN  IF r.kind = "raise" THEN calls' = cs /\ Crash
              ELSE IF IsSkipped(r.value) THEN Return(text, cs, <<>>)
              ELSE /\ lang' = r.value
                   /\ calls' = cs
                   /\ pc' = "translate"
                   /\ UNCHANGED <<comments, i, translated_text, blob,
                                  analysis_results, comment_body, posted, log>>

\* process_comment, line 73
Translate ==
    /\ pc = "translate"
    /\ \E out \in TranslateOutcomes :
          LET text == comments[i + 1]
              r == TranslateToEnglish(text, out)
          IN  /\ calls' = Append(calls, Call("translate", text, lang, out))
              /\ IF r.kind = "raise" THEN Crash
                 ELSE /\ translated_text' = r.value
                      /\ pc' = "score"
                      /\ UNCHANGED <<comments, i, lang, blob, analysis_results,
                                     comment_body, posted, log>>

\* analyze_sentiment, lines 46-47: TextBlob(text).sentiment
Score ==
    /\ pc = "score"
    /\ \E b \in Blobs :
          /\ blob' = b
          /\ calls' = Append(calls, Call("score",
                          ScoredText(comments[i + 1], translated_text), NONE, b))
    /\ pc' = "classify"
    /\ UNCHANGED <<comments, i, lang, translated_text, analysis_results,
                   comment_body, posted, log>>

\* analyze_sentiment, lines 50-61, and process_comment's return, lines 79-84
Classify ==
    /\ pc = "classify"
    /\ Return(comments[i + 1], calls,
              <<ProcessCommentResult(comments[i + 1], lang, translated_text, blob)>>)

\* main, lines 164-167
Summary ==
    /\ pc = "summary"
    /\ pc' = IF analysis_results # <<>> THEN "post" ELSE "done"
    /\ UNCHANGED <<comments, i, lang, translated_text, blob, analysis_results,
                   comment_body, posted, calls, log>>

\* post_sentiment_comment: nothing for an empty list; otherwise the body is
\* built and posted, and the response's status is only printed
PostSentimentComment ==
    /\ pc = "post"
    /\ IF analysis_results = <<>>
       THEN UNCHANGED <<comment_body, posted>>
       ELSE /\ comment_body' = CommentBody(analysis_results)
            /\ \E status \in {201, 403} : posted' = Append(posted, comment_body')
    /\ pc' = "done"
    /\ UNCHANGED <<comments, i, lang, translated_text, blob, analysis_results,
                   calls, log>>

Next ==
    \/ Start
    \/ GetPrComments
    \/ LoopNext
    \/ LoopExit
    \/ Detect
    \/ Translate
    \/ Score
    \/ Classify
    \/ Summary
    \/ PostSentimentComment

Spec == Init /\ [][Next]_vars

\* main runs each statement to its end: every call returns or raises
FairSpec == Spec /\ WF_vars(Next)

----------------------------------------------------------------------------
(* analyze_sentiment over the whole range of TextBlob's scores: a supported *)
(* comment whose translation has just been scored                           *)

InitScore ==
    /\ pc = "classify"
    /\ comments = <<GermanShort>>
    /\ i = 0
    /\ lang = "de"
    /\ translated_text = EnglishText
    /\ blob \in AllBlobs
    /\ calls = <<Call("detect", GermanShort, NONE, Ok("de")),
                 Call("translate", GermanShort, "de", Ok(EnglishText)),
                 Call("score", EnglishText, NONE, blob)>>
    /\ analysis_results = <<>>
    /\ comment_body = <<>>
    /\ posted = <<>>
    /\ log = <<>>

NextScore == Classify

SpecScore == InitScore /\ [][NextScore]_vars

----------------------------------------------------------------------------
(* post_sentiment_comment called on any list of analysis records *)

\* scores of the records handed to the report builder: -0.11, -0.004, 0.8
BuildBlobs ==
    {[polarity |-> p, subjectivity |-> 500] : p \in {-110, -4, 800}}

BuildRecords ==
    [original_text : BuildTexts,
     detected_language : {"de", "es", "fr"},
     translated_text : {EnglishText},
     sentiment_analysis : {AnalyzeSentiment(b) : b \in BuildBlobs}]

InitBuild ==
    /\ pc = "post"
    /\ comments = <<>>
    /\ i = 0
    /\ Locals
    /\ analysis_results \in SeqsUpTo(BuildRecords, MaxRecords)
    /\ comment_body = <<>>
    /\ posted = <<>>
    /\ log = <<>>

NextBuild == PostSentimentComment

SpecBuild == InitBuild /\ [][NextBuild]_vars

----------------------------------------------------------------------------
(* Properties *)

SupportedOut(out) == out.kind = "ok" /\ out.value \in {"de", "es"}

RECURSIVE Returned(_)
\* the records process_comment returned, in the order of the calls
Returned(l) ==
    IF l = <<>> THEN <<>> ELSE l[1].result \o Returned(Tail(l))

Rows(body) == SubSeq(body, Len(Header) + 1, Len(body))

StartsWith(str, prefix) ==
    Len(str) >= Len(prefix) /\ SubSeq(str, 1, Len(prefix)) = prefix

\* C1: a comment whose detected language is not de or es (en included), or
\* whose detection raised LangDetectException, makes process_comment return
\* None, and analysis_results holds the returned records and nothing else.
C1_UnsupportedIsSkipped ==
    /\ \A k \in 1..Len(log) :
          ~SupportedOut(log[k].calls[1].out) => log[k].result = <<>>
    /\ analysis_results = Returned(log)
    /\ Len(analysis_results) <=
          Cardinality({k \in 1..Len(log) : SupportedOut(log[k].calls[1].out)})

C1_Witness ==
    /\ pc = "done"
    /\ Len(log) = 2
    /\ log[1].calls[1].out = Ok("en")
    /\ log[2].calls[1].out = Raise("LangDetectException")
    /\ analysis_results = <<>>

\* C2: a comment whose detected language is de or es makes process_comment
\* return a record whose detected_language is the detected code and whose
\* original_text is the comment's text, whatever translation and scoring gave.
C2_SupportedYieldsRecord ==
    \A k \in 1..Len(log) :
        SupportedOut(log[k].calls[1].out) =>
            /\ Len(log[k].result) = 1
            /\ log[k].result[1].detected_language = log[k].calls[1].out.value
            /\ log[k].result[1].original_text = comments[k]

C2_Witness ==
    /\ Len(log) = 2
    /\ log[1].calls[1].out = Ok("es")
    /\ log[1].calls[2].out = Ok(EnglishText)
    /\ log[1].result[1].original_text = SpanishLong
    /\ log[2].calls[1].out = Ok("de")
    /\ log[2].calls[2].out.kind = "raise"
    /\ log[2].result[1].detected_language = "de"

\* C3: the class is decided by the raw polarity alone (above 0.10 positive,
\* below -0.10 negative, else neutral, 0.10 and -0.10 included), whatever
\* the subjectivity; the stored polarity is the rounded one, so 0.104 is
\* positive and 0.096 neutral and both are stored as 0.10.
C3_ClassFromRawPolarity ==
    \A k \in 1..Len(log) :
        log[k].result # <<>> =>
            LET raw == log[k].calls[3].out.polarity
                sa == log[k].result[1].sentiment_analysis
            IN  /\ (raw > 100) = (sa.sentiment = "positive")
                /\ (raw < -100) = (sa.sentiment = "negative")
                /\ (raw >= -100 /\ raw <= 100) = (sa.sentiment = "neutral")
                /\ raw \in {96, 100, 104} =>
                      sa.polarity = [neg |-> FALSE, mag |-> 10]
                /\ raw = -100 => sa.polarity = [neg |-> TRUE, mag |-> 10]
                /\ sa.polarity.neg = (raw < 0)
                /\ 10 * sa.polarity.mag - Abs(raw) \in (-5)..5

C3_Witness ==
    /\ Len(log) = 1
    /\ log[1].calls[3].out = [polarity |-> 104, subjectivity |-> 1000]
    /\ log[1].result[1].sentiment_analysis.sentiment = "positive"
    /\ log[1].result[1].sentiment_analysis.polarity = [neg |-> FALSE, mag |-> 10]

\* C4: when the translation fails (the client raises, or its response has no
\* translatedText), process_comment of a supported comment still returns a
\* record, its translated_text is the original text, and the sentiment was
\* scored on the original text; main does not end on the failure.
C4_TranslationFallback ==
    /\ pc # "crashed"
    /\ \A k \in 1..Len(log) :
          (Len(log[k].calls) >= 2 /\ log[k].calls[2].out.kind # "ok") =>
              /\ Len(log[k].result) = 1
              /\ log[k].result[1].translated_text = comments[k]
              /\ log[k].result[1].original_text = comments[k]
              /\ log[k].calls[3].op = "score"
              /\ log[k].calls[3].text = comments[k]
              /\ Len(analysis_results) >= 1

C4_Witness ==
    /\ pc = "done"
    /\ Len(log) = 2
    /\ Len(log[1].calls) = 3
    /\ Len(log[2].calls) = 3
    /\ log[1].calls[2].out.kind = "raise"
    /\ log[1].result[1].translated_text = GermanShort
    /\ log[2].calls[2].out.kind = "nofield"
    /\ log[2].result[1].translated_text = SpanishLong
    /\ Len(posted) = 1

\* C5: the report has one row per comment that was not skipped, the k-th row
\* made from the k-th returned record, in the order of the comments; when no
\* comment gave a record nothing is built or posted.
C5_OneRowPerRecordInOrder ==
    /\ \A k \in 1..Len(log) : log[k].text = comments[k]
    /\ Len(posted) <= 1
    /\ pc = "done" /\ posted # <<>> =>
          /\ Len(log) = Len(comments)
          /\ posted[1] = comment_body
          /\ Len(Rows(comment_body)) = Len(Returned(log))
          /\ \A k \in 1..Len(Returned(log)) :
                Rows(comment_body)[k] = Row(Returned(log)[k])
    /\ pc = "done" /\ Returned(log) # <<>> => posted # <<>>
    /\ Returned(log) = <<>> => comment_body = <<>> /\ posted = <<>>

C5_Witness ==
    /\ pc = "done"
    /\ comments = <<SpanishLong, GermanShort>>
    /\ Len(Returned(log)) = 2
    /\ Len(comment_body) = Len(Header) + 2
    /\ StartsWith(comment_body[Len(Header) + 1], "| Este cambio")
    /\ StartsWith(comment_body[Len(Header) + 2], "| Das ist")

\* C6: whatever detections and translations fail, main reaches its end, no
\* exception leaves it, every comment has been processed in input order by
\* then, and every comment detected as de or es has given its record.
C6_BatchRunsToCompletion ==
    /\ <>(pc = "done")
    /\ [](pc # "crashed")
    /\ [](pc = "done" /\ comments # <<>> =>
             /\ Len(log) = Len(comments)
             /\ \A k \in 1..Len(log) : log[k].text = comments[k])
    /\ [](\A k \in 1..Len(log) :
             SupportedOut(log[k].calls[1].out) => Len(log[k].result) = 1)

C6_Witness ==
    /\ pc = "done"
    /\ Len(log) = 2
    /\ log[1].calls[1].out = Raise("LangDetectException")
    /\ log[1].result = <<>>
    /\ log[2].calls[1].out = Ok("es")
    /\ log[2].calls[2].out = Raise("Exception")
    /\ Len(log[2].result) = 1

\* the run of C7: the one comment "Das ist großartig!", detected as de,
\* translated to "That's great!", scored with polarity 0.80
C7_Scenario ==
    /\ pc = "done"
    /\ comments = <<GermanShort>>
    /\ Len(log) = 1
    /\ Len(log[1].calls) = 3
    /\ log[1].calls[1].out = Ok("de")
    /\ log[1].calls[2].out = Ok("That's great!")
    /\ log[1].calls[3].out.polarity = 800

C8_TruncatedOriginal ==
    [][pc = "post" =>
          /\ analysis_results' = analysis_results
          /\ Len(Rows(comment_body')) = Len(analysis_results)
          /\ \A k \in 1..Len(analysis_results) :
                LET text == analysis_results[k].original_text
                    shown == IF Len(text) > 50
                             THEN SubSeq(text, 1, 50) \o "..."
                             ELSE text
                IN  /\ StartsWith(Rows(comment_body')[k], "| " \o shown \o " | ")
                    /\ Len(text) <= 50 =>
                          ~StartsWith(Rows(comment_body')[k],
                                      "| " \o text \o "...")]_vars

C8_Witness ==
    /\ pc = "done"
    /\ Len(analysis_results) = 2
    /\ Len(analysis_results[1].original_text) = 51
    /\ Len(analysis_results[2].original_text) = 50
    /\ StartsWith(Rows(comment_body)[1],
                  "| Bitte die Fehlerbehandlung in dieser Methode prüfe... | ")
    /\ StartsWith(Rows(comment_body)[2],
                  "| Diese Schleife ist unnötig kompliziert geschrieben | ")

\* C9: the report builder names de German and es Spanish, and renders no row
\* at all (it fails) when a record's detected_language is another code.
C9_FailsFastOnUnmappedCode ==
    pc = "done" =>
        IF \E k \in 1..Len(analysis_results) :
               analysis_results[k].detected_language \notin {"de", "es"}
        THEN comment_body = <<>> /\ posted = <<>>
        ELSE \A k \in 1..Len(analysis_results) :
                 LET shown == Original(analysis_results[k].original_text)
                     name == IF analysis_results[k].detected_language = "de"
                             THEN "German" ELSE "Spanish"
                 IN  StartsWith(Rows(comment_body)[k],
                                "| " \o shown \o " | " \o name \o " | ")

\* the calls a comment's processing has made so far are a prefix of: detect
\* on the comment; translate of the comment with the detected, supported
\* code as source; score on what translate_to_english returned
StagesInOrder(cs, text) ==
    /\ Len(cs) <= 3
    /\ Len(cs) >= 1 => cs[1].op = "detect" /\ cs[1].text = text
    /\ Len(cs) >= 2 =>
          /\ cs[2].op = "translate"
          /\ SupportedOut(cs[1].out)
          /\ cs[2].source = cs[1].out.value
          /\ cs[2].text = text
    /\ Len(cs) >= 3 =>
          /\ cs[3].op = "score"
          /\ cs[3].text = IF cs[2].out.kind = "ok" THEN cs[2].out.value ELSE text

\* C10: process_comment detects, then translates, then scores: translation
\* only after a supported detection and with that code as source, scoring
\* only after translation and on its output, and neither for a skipped
\* comment.
C10_StagesInOrder ==
    /\ i < Len(comments) => StagesInOrder(calls, comments[i + 1])
    /\ \A k \in 1..Len(log) :
          /\ StagesInOrder(log[k].calls, log[k].text)
          /\ log[k].result = <<>> => Len(log[k].calls) = 1
          /\ log[k].result # <<>> => Len(log[k].calls) = 3

C10_Witness ==
    /\ Len(log) = 2
    /\ log[1].result = <<>>
    /\ Len(log[1].calls) = 1
    /\ Len(log[2].calls) = 3
    /\ log[2].calls[2].source = "es"
    /\ log[2].calls[3].text = EnglishText

=============================================================================
